---- MODULE Spec2Model ----
(***************************************************************************)
(* A model of src/lib.rs of the inline-array crate: InlineArray, an 8-byte  *)
(* tagged word that either holds up to 7 bytes inline or points at a        *)
(* reference-counted heap block (SmallRemote: payload | rc:u8 | len:u8,     *)
(* BigRemote: rc:u16 | len:6 bytes LE | payload).                           *)
(*                                                                          *)
(* Memory is modelled at byte level: a word is a sequence of SZ bytes, the  *)
(* heap maps the base address of every live block to its bytes.  Pointers   *)
(* are stored in the word in native byte order, which is little-endian on   *)
(* the modelled target.                                                     *)
(***************************************************************************)
EXTENDS Integers, Sequences, FiniteSets, Bags, TLC

(***************************************************************************)
(* Program constants.                                                       *)
(***************************************************************************)
SZ == 8
INLINE_CUTOFF == SZ - 1
U8_MAX == 255
U16_MAX == 65535
SMALL_REMOTE_CUTOFF == U8_MAX
BIG_REMOTE_LEN_BYTES == 6
INLINE_TRAILER_TAG == 0
SMALL_REMOTE_TRAILER_TAG == 1
BIG_REMOTE_TRAILER_TAG == 2
TRAILER_TAG_MASK == 3
TRAILER_PTR_MASK == 252
\* size_of::<SmallRemoteTrailer>() and size_of::<BigRemoteHeader>()
SMALL_TRAILER_SIZE == 2
BIG_HEADER_SIZE == 8
\* the alignment passed to Layout::from_size_align and of repr(align(8))
ALIGN == 8

(***************************************************************************)
(* Bounds of the model.                                                     *)
(***************************************************************************)
\* number of candidate block addresses the allocator may hand out
NumAddrs == 3
\* number of operation calls (new, clone, drop, make_mut, write) in a run
MaxCalls == 2
\* number of threads
NumThreads == 2

Threads == 1..NumThreads

(***************************************************************************)
(* Byte arithmetic.                                                         *)
(***************************************************************************)
RECURSIVE BitAndN(_, _, _)
BitAndN(a, b, n) ==
    IF n = 0 \/ a = 0 \/ b = 0 THEN 0
    ELSE (a % 2) * (b % 2) + 2 * BitAndN(a \div 2, b \div 2, n - 1)

\* u8 & u8
BitAnd(a, b) == BitAndN(a, b, 8)

RECURSIVE BitOrN(_, _, _)
BitOrN(a, b, n) ==
    IF n = 0 THEN 0
    ELSE IF a = 0 THEN b
    ELSE IF b = 0 THEN a
    ELSE (IF a % 2 = 1 \/ b % 2 = 1 THEN 1 ELSE 0)
         + 2 * BitOrN(a \div 2, b \div 2, n - 1)

\* u8 | u8
BitOr(a, b) == BitOrN(a, b, 8)

RECURSIVE ToLeBytes(_, _)
\* usize::to_le_bytes, and the native-endian store of a pointer, on k bytes
ToLeBytes(n, k) ==
    IF k = 0 THEN <<>> ELSE <<n % 256>> \o ToLeBytes(n \div 256, k - 1)

RECURSIVE FromLeFrom(_, _)
FromLeFrom(bs, i) ==
    IF i > Len(bs) THEN 0 ELSE bs[i] + 256 * FromLeFrom(bs, i + 1)

\* usize::from_le_bytes, and the native-endian load of a pointer; the bytes
\* are evaluated once
FromLeBytes(bs) == CHOOSE n \in {FromLeFrom(b, 1) : b \in {bs}} : TRUE

Zeros(n) == [i \in 1..n |-> 0]

(***************************************************************************)
(* The heap: base address of a live block |-> the block's bytes.            *)
(***************************************************************************)
EmptyHeap == [b \in {} |-> <<>>]

BlocksAt(h, a) == {b \in DOMAIN h : b <= a /\ a < b + Len(h[b])}

Mapped(h, a) == BlocksAt(h, a) # {}

\* every address of [a, a + n) lies in one live block
MappedRange(h, a, n) ==
    \E b \in DOMAIN h : b <= a /\ a + n <= b + Len(h[b])

BlockOf(h, a) == CHOOSE b \in BlocksAt(h, a) : TRUE

\* a read of unmapped memory is undefined; the actions never perform one
\* (they raise fault instead), so the value given here is never observed
ReadByte(h, a) ==
    IF Mapped(h, a)
    THEN LET b == BlockOf(h, a) IN h[b][a - b + 1]
    ELSE 0

\* n bytes from address a; the bytes of one block are read as a subsequence
ReadBytes(h, a, n) ==
    CHOOSE bytes \in
        {IF m > 0 /\ MappedRange(h, p, m)
         THEN LET b == BlockOf(h, p) IN SubSeq(h[b], p - b + 1, p - b + m)
         ELSE [i \in 1..m |-> ReadByte(h, p + i - 1)] :
            p \in {a}, m \in {n}} : TRUE

WriteByte(h, a, v) ==
    IF Mapped(h, a)
    THEN LET b == BlockOf(h, a) IN [h EXCEPT ![b][a - b + 1] = v]
    ELSE h

\* std::alloc::alloc: the block is added at base with the given contents
AllocAt(h, base, bytes) ==
    [b \in DOMAIN h \cup {base} |-> IF b = base THEN bytes ELSE h[b]]

\* std::alloc::dealloc
Dealloc(h, base) == [b \in DOMAIN h \ {base} |-> h[b]]

\* candidate block addresses, with several non-zero bytes
AddrOf(k) == k * 16781312

\* the addresses the allocator knows: 8-byte aligned ones and, in between,
\* ones that are only 4-byte aligned
AddrPool == {AddrOf(k) : k \in 1..NumAddrs} \cup {AddrOf(k) + 4 : k \in 1..NumAddrs}

\* the addresses alloc(layout) may return: aligned, and the block is free
AllocChoices(h, size, align) ==
    {a \in AddrPool :
        /\ a % align = 0
        /\ \A b \in DOMAIN h : a + size <= b \/ b + Len(h[b]) <= a}

(***************************************************************************)
(* InlineArray: accessors of the tagged word.                               *)
(***************************************************************************)
\* inline_trailer: self.0[SZ - 1]
inline_trailer(w) == w[SZ]

\* inline_len: inline_trailer() >> 2
inline_len(w) == inline_trailer(w) \div 4

\* kind: the tag in the low two bits of the last byte; the arm for the tag
\* 0b11 is unreachable_unchecked(), undefined behaviour, named "Undefined"
kind(w) ==
    LET tag == BitAnd(inline_trailer(w), TRAILER_TAG_MASK) IN
    IF tag = INLINE_TRAILER_TAG THEN "Inline"
    ELSE IF tag = SMALL_REMOTE_TRAILER_TAG THEN "SmallRemote"
    ELSE IF tag = BIG_REMOTE_TRAILER_TAG THEN "BigRemote"
    ELSE "Undefined"

IsRemote(w) == kind(w) \in {"SmallRemote", "BigRemote"}

\* remote_ptr: the word with the tag bits of its last byte cleared, read
\* back as a pointer
remote_ptr(w) ==
    FromLeBytes([w EXCEPT ![SZ] = BitAnd(w[SZ], TRAILER_PTR_MASK)])

\* SmallRemoteTrailer { rc: AtomicU8, len: u8 } at the trailer address
SmallRcAddr(w) == remote_ptr(w)
SmallLenAddr(w) == remote_ptr(w) + 1

\* SmallRemoteTrailer::len
SmallLen(h, w) == ReadByte(h, SmallLenAddr(w))

\* BigRemoteHeader { rc: AtomicU16, len: [u8; 6] } at the header address
BigRcAddr(w) == remote_ptr(w)
BigLenAddr(w) == remote_ptr(w) + 2

\* BigRemoteHeader::len: the six length bytes, zero-extended, little-endian
BigLen(h, w) ==
    FromLeBytes(ReadBytes(h, BigLenAddr(w), BIG_REMOTE_LEN_BYTES) \o <<0, 0>>)

\* the length of the byte view (deref().len())
ViewLen(h, w) ==
    CASE kind(w) = "Inline" -> inline_len(w)
      [] kind(w) = "SmallRemote" -> SmallLen(h, w)
      [] kind(w) = "BigRemote" -> BigLen(h, w)
      [] OTHER -> 0

\* (mutant) the BigRemote view skips the six length bytes only
DataPtr_SkipLen(h, w) ==
    IF kind(w) = "SmallRemote" THEN remote_ptr(w) - SmallLen(h, w)
    ELSE remote_ptr(w) + BIG_REMOTE_LEN_BYTES

\* the heap address at which the byte view of a remote value starts
DataPtr(h, w) ==
    IF kind(w) = "SmallRemote" THEN remote_ptr(w) - SmallLen(h, w)
    ELSE remote_ptr(w) + BIG_HEADER_SIZE

\* the start address of the byte view; an Inline view starts at the address
\* of the value itself
ViewPtr(h, w, selfAddr) ==
    IF kind(w) = "Inline" THEN selfAddr ELSE DataPtr(h, w)

\* Deref::deref: the byte view
deref(h, w) ==
    IF kind(w) = "Inline"
    THEN SubSeq(w, 1, inline_len(w))
    ELSE ReadBytes(h, DataPtr(h, w), ViewLen(h, w))

\* the width of the reference count of a remote value, as its maximum
RcMax(w) == IF kind(w) = "SmallRemote" THEN U8_MAX ELSE U16_MAX

\* rc.load(): AtomicU8 in the trailer, AtomicU16 (native order) in the header
RcLoad(h, w) ==
    IF kind(w) = "SmallRemote"
    THEN ReadByte(h, SmallRcAddr(w))
    ELSE FromLeBytes(ReadBytes(h, BigRcAddr(w), 2))

\* (mutant) the SmallRemote count is taken to be the byte before the trailer
RcStore_BeforeTrailer(h, w, v) ==
    IF kind(w) = "SmallRemote"
    THEN WriteByte(h, SmallRcAddr(w) - 1, v % 256)
    ELSE WriteByte(WriteByte(h, BigRcAddr(w), v % 256),
                   BigRcAddr(w) + 1, (v \div 256) % 256)

\* the address of the reference count of a remote value
RcAddr(w) == IF kind(w) = "SmallRemote" THEN SmallRcAddr(w) ELSE BigRcAddr(w)

\* a store of the reference count (the write half of CAS and fetch_sub)
RcStore(h, w, v) ==
    IF kind(w) = "SmallRemote"
    THEN WriteByte(h, SmallRcAddr(w), v % 256)
    ELSE WriteByte(WriteByte(h, BigRcAddr(w), v % 256),
                   BigRcAddr(w) + 1, (v \div 256) % 256)

\* (mutant) the pointer passed to dealloc is the decoded pointer as it is
DeallocPtr_Decoded(h, w) == remote_ptr(w)

\* the base and the size that Drop::drop passes to dealloc
DeallocPtr(h, w) ==
    IF kind(w) = "SmallRemote" THEN remote_ptr(w) - SmallLen(h, w)
    ELSE remote_ptr(w)

DeallocSize(h, w) ==
    IF kind(w) = "SmallRemote" THEN SmallLen(h, w) + SMALL_TRAILER_SIZE
    ELSE BigLen(h, w) + BIG_HEADER_SIZE

\* the alignment of the layout that Drop::drop passes to dealloc
DeallocAlign(w) == 8

\* every byte the accessors of a remote value read lies in a live block
Accessible(h, w) ==
    CASE kind(w) = "Inline" -> TRUE
      [] kind(w) = "SmallRemote" ->
            LET p == remote_ptr(w) IN
            /\ MappedRange(h, p, SMALL_TRAILER_SIZE)
            /\ LET base == p - ReadByte(h, p + 1) IN
               /\ base \in DOMAIN h
               /\ Len(h[base]) = p - base + SMALL_TRAILER_SIZE
      [] kind(w) = "BigRemote" ->
            LET p == remote_ptr(w) IN
            /\ p \in DOMAIN h
            /\ Len(h[p]) >= BIG_HEADER_SIZE
            /\ Len(h[p]) = BigLen(h, w) + BIG_HEADER_SIZE
      [] OTHER -> FALSE

(***************************************************************************)
(* InlineArray::new                                                         *)
(***************************************************************************)
\* the size of the block new() allocates for a slice of length n (0: none)
LayoutSize(n) ==
    IF n <= INLINE_CUTOFF THEN 0
    ELSE IF n <= SMALL_REMOTE_CUTOFF THEN n + SMALL_TRAILER_SIZE
    ELSE n + BIG_HEADER_SIZE

\* (mutant) the length is stored without the shift that frees the tag bits
NewInline_NoShift(slice) ==
    LET d0 == [Zeros(SZ) EXCEPT ![SZ] = Len(slice) % 256]
    IN  [i \in 1..SZ |-> IF i <= Len(slice) THEN slice[i] ELSE d0[i]]

\* the Inline branch: length << 2 in the last byte, the slice in front
NewInline(slice) ==
    LET d0 == [Zeros(SZ) EXCEPT ![SZ] = (Len(slice) * 4) % 256]
        d1 == [i \in 1..SZ |-> IF i <= Len(slice) THEN slice[i] ELSE d0[i]]
    IN  [d1 EXCEPT ![SZ] = BitOr(d1[SZ], INLINE_TRAILER_TAG)]

\* (mutant) the trailer fields written in the other order
NewSmallBlock_LenFirst(slice) == slice \o <<Len(slice) % 256, 1>>

\* (mutant) the word holds the address of the block, not of the trailer
NewSmallWord_Base(slice, base) ==
    LET d == ToLeBytes(base, SZ)
    IN  [d EXCEPT ![SZ] = BitOr(d[SZ], SMALL_REMOTE_TRAILER_TAG)]

\* the SmallRemote branch: block = payload | rc = 1 | len, and the word is
\* the trailer address with the tag or-ed into its last byte
NewSmallBlock(slice) == slice \o <<1, Len(slice) % 256>>

NewSmallWord(slice, base) ==
    LET trailer_ptr == base + Len(slice)
        d == ToLeBytes(trailer_ptr, SZ)
    IN  [d EXCEPT ![SZ] = BitOr(d[SZ], SMALL_REMOTE_TRAILER_TAG)]

\* the BigRemote branch: block = rc = 1 (u16) | len (6 bytes LE) | payload
NewBigBlock(slice) ==
    ToLeBytes(1, 2) \o ToLeBytes(Len(slice), BIG_REMOTE_LEN_BYTES) \o slice

NewBigWord(slice, base) ==
    LET d == ToLeBytes(base, SZ)
    IN  [d EXCEPT ![SZ] = BitOr(d[SZ], BIG_REMOTE_TRAILER_TAG)]

\* (mutant) the assertion looks at the first byte of the stored pointer,
\* which holds the low bits of the address
TagBitsFree_LowByte(ptr) == BitAnd(ToLeBytes(ptr, SZ)[1], 7) = 0

\* the assertion that the bottom 3 bits of the last byte of the stored
\* pointer are empty
TagBitsFree(ptr) == BitAnd(ToLeBytes(ptr, SZ)[SZ], 7) = 0

\* new(slice) with the allocator returning base: the word
NewWord(slice, base) ==
    IF Len(slice) <= INLINE_CUTOFF THEN NewInline(slice)
    ELSE IF Len(slice) <= SMALL_REMOTE_CUTOFF THEN NewSmallWord(slice, base)
    ELSE NewBigWord(slice, base)

\* new(slice) with the allocator returning base: the heap
NewHeap(h, slice, base) ==
    IF Len(slice) <= INLINE_CUTOFF THEN h
    ELSE IF Len(slice) <= SMALL_REMOTE_CUTOFF
         THEN AllocAt(h, base, NewSmallBlock(slice))
    ELSE AllocAt(h, base, NewBigBlock(slice))

\* the addresses the allocation of new(slice) may return; an Inline value
\* allocates nothing (0 stands for "no allocation").  An address at which
\* the assertion on the bottom 3 bits fails makes new() panic and return no
\* value; the last byte of the word is the top byte of the little-endian
\* pointer, which is zero for every address of the pool
NewChoices(h, slice) ==
    IF Len(slice) <= INLINE_CUTOFF THEN {0}
    ELSE {a \in AllocChoices(h, LayoutSize(Len(slice)), ALIGN) :
             TagBitsFree(IF Len(slice) <= SMALL_REMOTE_CUTOFF
                         THEN a + Len(slice) ELSE a)}

(***************************************************************************)
(* The length of the BigRemote branch, on the eight bytes of                *)
(* slice.len().to_le_bytes(): a usize does not fit the integers of the      *)
(* model checker, its bytes do.                                             *)
(***************************************************************************)
\* the six bytes new() copies out of slice_len_buf into the header
BigLenField(buf) == SubSeq(buf, 1, BIG_REMOTE_LEN_BYTES)

\* (mutant) only the last byte of the length is asserted to be zero
LenFits_LastByte(buf) == buf[8] = 0

\* assert_eq!(slice_len_buf[6], 0); assert_eq!(slice_len_buf[7], 0)
LenFits(buf) == buf[7] = 0 /\ buf[8] = 0

\* BigRemoteHeader { rc: 1.into(), len }
BigHeader(buf) == ToLeBytes(1, 2) \o BigLenField(buf)

\* BigRemoteHeader::len of the header bytes hdr: the buffer given to
\* usize::from_le_bytes, which are the to_le_bytes of the result
BigHeaderLen(hdr) == SubSeq(hdr, 3, 2 + BIG_REMOTE_LEN_BYTES) \o <<0, 0>>

(***************************************************************************)
(* The state.                                                               *)
(*   heap    the live heap blocks                                           *)
(*   vals    the bag of live InlineArray values (their 8-byte words) that   *)
(*           are not exclusively borrowed                                   *)
(*   pc      per thread, the position inside the call it executes           *)
(*   self    per thread, the word of the value the call was made on; while  *)
(*           make_mut runs and while its mutable view is alive the value is *)
(*           borrowed exclusively and is held here instead of in vals       *)
(*   cur     per thread, `current` of Clone::clone                          *)
(*   tmp     per thread, the value InlineArray::from built in make_mut,     *)
(*           before it is assigned to *self; in a comparison, the value on  *)
(*           the right of self                                              *)
(*   view    per thread, the mutable slice make_mut returned                *)
(*   expect  per thread, the bytes the value under make_mut must show: its  *)
(*           view at the call, updated by each write (history variable)     *)
(*   orig    per thread, the word the value had when make_mut was called    *)
(*           (history variable)                                             *)
(*   last    the last call that returned, with the views seen at its return *)
(*           (history variable)                                             *)
(*   calls   number of calls made                                           *)
(*   fault   an access outside every live block happened                    *)
(***************************************************************************)
VARIABLES heap, vals, pc, self, cur, tmp, view, expect, orig, last, calls,
          fault

vars == <<heap, vals, pc, self, cur, tmp, view, expect, orig, last, calls,
          fault>>

NoWord == <<>>
NoView == [inl |-> FALSE, ptr |-> 0, len |-> 0]
NoCall == [op |-> "none", src |-> NoWord, out |-> NoWord, arg |-> <<>>,
           path |-> "none", view |-> <<>>, len |-> 0, srcview |-> <<>>]

\* the record of a call that returns in heap h: op on the value src with
\* argument arg (for clone: the view of src before the step) returned out;
\* view and len are out's byte view and length, srcview is src's byte view
Returned(op, src, out, arg, path, h) ==
    CHOOSE r \in
        {[op |-> op, src |-> s, out |-> o, arg |-> a, path |-> path,
          view |-> IF o = NoWord THEN <<>> ELSE deref(hh, o),
          len |-> IF o = NoWord THEN 0 ELSE ViewLen(hh, o),
          srcview |-> IF s = NoWord THEN <<>> ELSE deref(hh, s)] :
            s \in {src}, o \in {out}, a \in {arg}, hh \in {h}} : TRUE

BagAdd(B, w) == B (+) SetToBag({w})
BagRemove(B, w) == B (-) SetToBag({w})

\* n copies of w
BagOf(w, n) == [x \in {w} |-> n]

(***************************************************************************)
(* The slices given to the constructor.                                     *)
(***************************************************************************)
\* n bytes: b + 1, b + 2, ...
Slice(n, b) == [i \in 1..n |-> (b + i) % 256]

SliceLens == {0, 7, 8, 255, 256}

Slices == {Slice(n, 0) : n \in SliceLens}

\* the bytes written through a mutable view, and the offsets written
WriteBytes == {170}
WriteOffsets(len) == {i \in {0, len - 1} : 0 <= i /\ i < len}

(***************************************************************************)
(* Initial states: no value at all, or one value built from a slice and,   *)
(* if it is remote, cloned until n owners share its block (the state       *)
(* reached by new followed by n - 1 clones), for n small and for n near    *)
(* the maximum of the reference count.                                      *)
(***************************************************************************)
OwnerCounts(w) ==
    IF kind(w) = "Inline" THEN {1} ELSE {1, 2, RcMax(w) - 1, RcMax(w)}

InitLocals ==
    /\ pc = [t \in Threads |-> "idle"]
    /\ self = [t \in Threads |-> NoWord]
    /\ cur = [t \in Threads |-> 0]
    /\ tmp = [t \in Threads |-> NoWord]
    /\ view = [t \in Threads |-> NoView]
    /\ expect = [t \in Threads |-> <<>>]
    /\ orig = [t \in Threads |-> NoWord]
    /\ last = NoCall
    /\ calls = 0
    /\ fault = FALSE

InitEmpty ==
    /\ heap = EmptyHeap
    /\ vals = EmptyBag

InitOwned ==
    \E s \in Slices :
        LET w == NewWord(s, AddrOf(1)) IN
        \E n \in OwnerCounts(w) :
            /\ heap = IF kind(w) = "Inline" THEN EmptyHeap
                      ELSE RcStore(NewHeap(EmptyHeap, s, AddrOf(1)), w, n)
            /\ vals = BagOf(w, n)

Init == InitLocals /\ (InitEmpty \/ InitOwned)

(***************************************************************************)
(* Borrowing.  A running clone borrows its value shared; drop and make_mut  *)
(* need a value nobody borrows.  Values with equal words are                *)
(* interchangeable, so all shared borrows of a word may be of one value.    *)
(***************************************************************************)
ClonePcs == {"clone_load", "clone_loaded"}

SharedBorrowed(w) == \E u \in Threads : pc[u] \in ClonePcs /\ self[u] = w

Unborrowed(w) ==
    /\ BagIn(w, vals)
    /\ CopiesIn(w, vals) > (IF SharedBorrowed(w) THEN 1 ELSE 0)

\* threads are anonymous: a call starts on the first idle thread
Starts(t) ==
    /\ ~fault
    /\ calls < MaxCalls
    /\ pc[t] = "idle"
    /\ \A u \in Threads : u < t => pc[u] # "idle"

Idle(t) ==
    /\ pc' = [pc EXCEPT ![t] = "idle"]
    /\ self' = [self EXCEPT ![t] = NoWord]
    /\ cur' = [cur EXCEPT ![t] = 0]
    /\ tmp' = [tmp EXCEPT ![t] = NoWord]
    /\ view' = [view EXCEPT ![t] = NoView]
    /\ expect' = [expect EXCEPT ![t] = <<>>]
    /\ orig' = [orig EXCEPT ![t] = NoWord]

\* an access outside every live block: undefined behaviour, recorded
Fault ==
    /\ fault' = TRUE
    /\ UNCHANGED <<heap, vals, pc, self, cur, tmp, view, expect, orig, last,
                   calls>>

(***************************************************************************)
(* InlineArray::new, through From<&[u8]>                                    *)
(***************************************************************************)
New(t, s) ==
    /\ Starts(t)
    /\ \E base \in NewChoices(heap, s) :
       \E nw \in {NewWord(s, base)} :
       \E h1 \in {NewHeap(heap, s, base)} :
          /\ heap' = h1
          /\ vals' = BagAdd(vals, nw)
          /\ last' = Returned("new", NoWord, nw, s, kind(nw), h1)
    /\ calls' = calls + 1
    /\ UNCHANGED <<pc, self, cur, tmp, view, expect, orig, fault>>

\* lengths of slices too long for any block of the modelled heap, as their
\* to_le_bytes: 2^48 - 1, 2^48 and 2^56
LongLens ==
    {<<255, 255, 255, 255, 255, 255, 0, 0>>,
     <<0, 0, 0, 0, 0, 0, 1, 0>>,
     <<0, 0, 0, 0, 0, 0, 0, 1>>}

\* new() on a slice of such a length, lenbuf being slice.len().to_le_bytes():
\* the BigRemote branch computes the layout, builds the length field and
\* asserts that the two top bytes are zero, which panics before alloc is
\* called; a length that passes gets its header built and then asks the
\* allocator for more than the modelled address space holds, alloc returns
\* null and assert!(!header_ptr.is_null()) panics.  The call is recorded
\* with the length the header built would report, as its bytes.
NewLong(t, lenbuf) ==
    /\ Starts(t)
    /\ calls' = calls + 1
    /\ last' = IF LenFits(lenbuf)
               THEN [NoCall EXCEPT !.op = "new_long", !.arg = lenbuf,
                                   !.path = "alloc_null",
                                   !.view = BigHeaderLen(BigHeader(lenbuf))]
               ELSE [NoCall EXCEPT !.op = "new_long", !.arg = lenbuf,
                                   !.path = "panic_len"]
    /\ UNCHANGED <<heap, vals, pc, self, cur, tmp, view, expect, orig, fault>>

(***************************************************************************)
(* Clone::clone                                                             *)
(***************************************************************************)
\* the call on an Inline value copies the word; on a remote value it
\* enters the loop and loads the count for the first time
CloneCall(t, w) ==
    /\ Starts(t)
    /\ BagIn(w, vals)
    /\ calls' = calls + 1
    /\ IF kind(w) = "Undefined" THEN Fault
       ELSE IF kind(w) = "Inline"
       THEN /\ vals' = BagAdd(vals, w)
            /\ last' = Returned("clone", w, w, deref(heap, w), "inline", heap)
            /\ UNCHANGED <<heap, pc, self, cur, tmp, view, expect, orig, fault>>
       ELSE IF ~Accessible(heap, w) THEN Fault
       ELSE /\ pc' = [pc EXCEPT ![t] = "clone_loaded"]
            /\ self' = [self EXCEPT ![t] = w]
            /\ cur' = [cur EXCEPT ![t] = RcLoad(heap, w)]
            /\ UNCHANGED <<heap, vals, tmp, view, expect, orig, last, fault>>

\* (mutant) the count is loaded once, before the loop: a further turn of
\* the loop keeps the value it has
CloneLoad_Once(t) ==
    /\ ~fault
    /\ pc[t] = "clone_load"
    /\ IF ~Accessible(heap, self[t]) THEN Fault
       ELSE /\ pc' = [pc EXCEPT ![t] = "clone_loaded"]
            /\ UNCHANGED <<heap, vals, self, cur, tmp, view, expect, orig, last,
                           calls, fault>>

\* let current = rc.load(Relaxed), in a further turn of the loop
CloneLoad(t) ==
    /\ ~fault
    /\ pc[t] = "clone_load"
    /\ IF ~Accessible(heap, self[t]) THEN Fault
       ELSE /\ cur' = [cur EXCEPT ![t] = RcLoad(heap, self[t])]
            /\ pc' = [pc EXCEPT ![t] = "clone_loaded"]
            /\ UNCHANGED <<heap, vals, self, tmp, view, expect, orig, last,
                           calls, fault>>

\* (mutant) the compare-and-swap stores the value it read
CasNew_Same(current) == current

\* the value compare_exchange_weak(current, current + 1) stores
CasNew(current) == current + 1

\* (mutant) the loop takes only a count above the maximum as saturated
Saturated_Above(w, current) == current > RcMax(w)

\* the reference count the loop treats as saturated
Saturated(w, current) == current = RcMax(w)

\* (mutant) the count is incremented before it is compared with MAX
CloneFallback_Counts(t) ==
    /\ ~fault
    /\ pc[t] = "clone_loaded"
    /\ Saturated(self[t], cur[t])
    /\ IF ~Accessible(heap, self[t]) THEN Fault
       ELSE LET s == deref(heap, self[t])
                h1 == RcStore(heap, self[t], CasNew(cur[t]))
            IN
            /\ \E base \in NewChoices(h1, s) :
                  /\ heap' = NewHeap(h1, s, base)
                  /\ vals' = BagAdd(vals, NewWord(s, base))
                  /\ last' = Returned("clone", self[t], NewWord(s, base), s,
                                      "fallback", NewHeap(h1, s, base))
            /\ Idle(t)
            /\ UNCHANGED <<calls, fault>>

\* if current == MAX { return InlineArray::from(self.deref()) }
CloneFallback(t) ==
    /\ ~fault
    /\ pc[t] = "clone_loaded"
    /\ Saturated(self[t], cur[t])
    /\ IF ~Accessible(heap, self[t]) THEN Fault
       ELSE \E s \in {deref(heap, self[t])} :
            /\ \E base \in NewChoices(heap, s) :
               \E nw \in {NewWord(s, base)} :
               \E h1 \in {NewHeap(heap, s, base)} :
                  /\ heap' = h1
                  /\ vals' = BagAdd(vals, nw)
                  /\ last' = Returned("clone", self[t], nw, s, "fallback", h1)
            /\ Idle(t)
            /\ UNCHANGED <<calls, fault>>

\* compare_exchange_weak succeeds; the loop breaks and the word is copied
CloneCasOk(t) ==
    /\ ~fault
    /\ pc[t] = "clone_loaded"
    /\ ~Saturated(self[t], cur[t])
    /\ IF ~Accessible(heap, self[t]) THEN Fault
       ELSE /\ RcLoad(heap, self[t]) = cur[t]
            /\ \E h1 \in {RcStore(heap, self[t], CasNew(cur[t]))} :
                  /\ heap' = h1
                  /\ last' = Returned("clone", self[t], self[t],
                                      deref(heap, self[t]), "cas", h1)
            /\ vals' = BagAdd(vals, self[t])
            /\ Idle(t)
            /\ UNCHANGED <<calls, fault>>

\* compare_exchange_weak fails, because the count changed or spuriously;
\* the loop loads again
CloneCasFail(t) ==
    /\ ~fault
    /\ pc[t] = "clone_loaded"
    /\ ~Saturated(self[t], cur[t])
    /\ pc' = [pc EXCEPT ![t] = "clone_load"]
    /\ UNCHANGED <<heap, vals, self, cur, tmp, view, expect, orig, last,
                   calls, fault>>

(***************************************************************************)
(* Drop::drop                                                               *)
(***************************************************************************)
\* (mutant) drop leaves the count as it found it
FetchSubNew_Stuck(w, old) == old

\* rc.fetch_sub(1, Release) - 1, in the width of the counter
FetchSubNew(w, old) == (old - 1) % (RcMax(w) + 1)

\* (mutant) drop deallocates one owner early
DropFrees_OffByOne(rc) == rc <= 1

\* the count at which drop deallocates
DropFrees(rc) == rc = 0

DropCall(t, w) ==
    /\ Starts(t)
    /\ Unborrowed(w)
    /\ calls' = calls + 1
    /\ IF kind(w) = "Undefined" \/ ~Accessible(heap, w) THEN Fault
       ELSE LET rc == FetchSubNew(w, RcLoad(heap, w)) IN
            /\ vals' = BagRemove(vals, w)
            /\ heap' = IF kind(w) = "Inline" THEN heap
                       ELSE RcStore(heap, w, rc)
            /\ IF kind(w) # "Inline" /\ DropFrees(rc)
               THEN /\ pc' = [pc EXCEPT ![t] = "drop_free"]
                    /\ self' = [self EXCEPT ![t] = w]
                    /\ UNCHANGED last
               ELSE /\ last' = Returned("drop", NoWord, NoWord, <<>>, kind(w),
                                        heap)
                    /\ UNCHANGED <<pc, self>>
            /\ UNCHANGED <<cur, tmp, view, expect, orig, fault>>

\* dealloc of a pointer that is no base of a live block, or with a layout
\* other than the one it was allocated with, is undefined
DeallocOk(h, w) ==
    /\ Accessible(h, w)
    /\ DeallocPtr(h, w) \in DOMAIN h
    /\ Len(h[DeallocPtr(h, w)]) = DeallocSize(h, w)

\* fence(Acquire); dealloc(ptr, layout)
DropFree(t) ==
    /\ ~fault
    /\ pc[t] = "drop_free"
    /\ IF ~DeallocOk(heap, self[t]) THEN Fault
       ELSE /\ heap' = Dealloc(heap, DeallocPtr(heap, self[t]))
            /\ last' = Returned("drop", NoWord, NoWord, <<>>, "freed", heap)
            /\ Idle(t)
            /\ UNCHANGED <<vals, calls, fault>>

(***************************************************************************)
(* InlineArray::make_mut                                                    *)
(***************************************************************************)
\* (mutant) the mutable slice of a BigRemote value starts at its header
MutView_AtHeader(h, w) ==
    IF kind(w) = "Inline"
    THEN [inl |-> TRUE, ptr |-> 0, len |-> inline_len(w)]
    ELSE [inl |-> FALSE,
          ptr |-> IF kind(w) = "BigRemote" THEN remote_ptr(w)
                  ELSE DataPtr(h, w),
          len |-> ViewLen(h, w)]

\* (mutant) the mutable slice of an Inline value is the whole storage
MutView_WholeWord(h, w) ==
    IF kind(w) = "Inline"
    THEN [inl |-> TRUE, ptr |-> 0, len |-> SZ]
    ELSE [inl |-> FALSE, ptr |-> DataPtr(h, w), len |-> ViewLen(h, w)]

\* the mutable slice make_mut returns for the value w
MutView(h, w) ==
    IF kind(w) = "Inline"
    THEN [inl |-> TRUE, ptr |-> 0, len |-> inline_len(w)]
    ELSE [inl |-> FALSE, ptr |-> DataPtr(h, w), len |-> ViewLen(h, w)]

\* (mutant) a value shared by two owners is not privatized
MustCopy_OffByOne(rc) == rc > 2

\* rc.load(Acquire) != 1: the value is privatized
MustCopy(rc) == rc # 1

MakeMutCall(t, w) ==
    /\ Starts(t)
    /\ Unborrowed(w)
    /\ calls' = calls + 1
    /\ IF kind(w) = "Undefined" \/ ~Accessible(heap, w) THEN Fault
       ELSE /\ vals' = BagRemove(vals, w)
            /\ self' = [self EXCEPT ![t] = w]
            /\ expect' = [expect EXCEPT ![t] = deref(heap, w)]
            /\ orig' = [orig EXCEPT ![t] = w]
            /\ IF kind(w) # "Inline" /\ MustCopy(RcLoad(heap, w))
               THEN /\ pc' = [pc EXCEPT ![t] = "mm_copy"]
                    /\ UNCHANGED view
               ELSE /\ pc' = [pc EXCEPT ![t] = "mut"]
                    /\ view' = [view EXCEPT ![t] = MutView(heap, w)]
            /\ UNCHANGED <<heap, cur, tmp, last, fault>>

\* *self = InlineArray::from(self.deref()): the copy is built, then the old
\* value is dropped in place (fetch_sub), then the copy is stored in self
MakeMutCopy(t) ==
    /\ ~fault
    /\ pc[t] = "mm_copy"
    /\ IF ~Accessible(heap, self[t]) THEN Fault
       ELSE \E s \in {deref(heap, self[t])} :
            \E base \in NewChoices(heap, s) :
            \E nw \in {NewWord(s, base)} :
            \E h1 \in {NewHeap(heap, s, base)} :
            \E rc \in {FetchSubNew(self[t], RcLoad(h1, self[t]))} :
            \E h2 \in {RcStore(h1, self[t], rc)} :
                   /\ heap' = h2
                   /\ IF DropFrees(rc)
                      THEN /\ pc' = [pc EXCEPT ![t] = "mm_free"]
                           /\ tmp' = [tmp EXCEPT ![t] = nw]
                           /\ UNCHANGED <<self, view>>
                      ELSE /\ pc' = [pc EXCEPT ![t] = "mut"]
                           /\ self' = [self EXCEPT ![t] = nw]
                           /\ view' = [view EXCEPT ![t] = MutView(h2, nw)]
                           /\ UNCHANGED tmp
                   /\ UNCHANGED <<vals, cur, expect, orig, last, calls, fault>>

\* the drop of the old value found the count at zero: it deallocates
MakeMutFree(t) ==
    /\ ~fault
    /\ pc[t] = "mm_free"
    /\ IF ~DeallocOk(heap, self[t]) THEN Fault
       ELSE \E h1 \in {Dealloc(heap, DeallocPtr(heap, self[t]))} :
            /\ heap' = h1
            /\ pc' = [pc EXCEPT ![t] = "mut"]
            /\ self' = [self EXCEPT ![t] = tmp[t]]
            /\ tmp' = [tmp EXCEPT ![t] = NoWord]
            /\ view' = [view EXCEPT ![t] = MutView(h1, tmp[t])]
            /\ UNCHANGED <<vals, cur, expect, orig, last, calls, fault>>

\* a write of byte b at offset i of the mutable slice
Write(t, i, b) ==
    /\ ~fault
    /\ calls < MaxCalls
    /\ pc[t] = "mut"
    /\ i \in WriteOffsets(view[t].len)
    /\ calls' = calls + 1
    /\ IF ~view[t].inl /\ ~Mapped(heap, view[t].ptr + i) THEN Fault
       ELSE /\ IF view[t].inl
               THEN /\ self' = [self EXCEPT ![t][i + 1] = b]
                    /\ UNCHANGED heap
               ELSE /\ heap' = WriteByte(heap, view[t].ptr + i, b)
                    /\ UNCHANGED self
            /\ expect' = [expect EXCEPT ![t][i + 1] = b]
            /\ UNCHANGED <<vals, pc, cur, tmp, view, orig, last, fault>>

\* the mutable slice goes out of scope: the value is usable again
MutRelease(t) ==
    /\ ~fault
    /\ pc[t] = "mut"
    /\ vals' = BagAdd(vals, self[t])
    /\ last' = Returned("make_mut", NoWord, self[t], expect[t],
                        kind(self[t]), heap)
    /\ Idle(t)
    /\ UNCHANGED <<heap, calls, fault>>

(***************************************************************************)
(* PartialEq::eq and Ord::cmp                                               *)
(***************************************************************************)
\* PartialEq: the byte views are equal
Eq(va, vb) == va = vb

RECURSIVE FirstDiff(_, _, _, _)
\* the least index in lo..hi at which a and b differ, given that there is
\* one, found by halving the range
FirstDiff(a, b, lo, hi) ==
    IF lo = hi THEN lo
    ELSE LET mid == (lo + hi) \div 2 IN
         IF SubSeq(a, lo, mid) # SubSeq(b, lo, mid)
         THEN FirstDiff(a, b, lo, mid)
         ELSE FirstDiff(a, b, mid + 1, hi)

\* memcmp over the first n bytes: zero, or the difference of the first pair
\* of bytes that differ
memcmp(a, b, n) ==
    IF SubSeq(a, 1, n) = SubSeq(b, 1, n) THEN 0
    ELSE LET k == FirstDiff(a, b, 1, n) IN a[k] - b[k]

\* <[u8] as Ord>::cmp: memcmp over the shorter length decides, and if it
\* finds no difference the lengths decide
SliceCmp(a, b) ==
    LET n == IF Len(a) < Len(b) THEN Len(a) ELSE Len(b)
        order == memcmp(a, b, n)
    IN  IF order < 0 THEN "Less"
        ELSE IF order > 0 THEN "Greater"
        ELSE IF Len(a) < Len(b) THEN "Less"
        ELSE IF Len(a) > Len(b) THEN "Greater"
        ELSE "Equal"

\* Ord::cmp: self.as_ref().cmp(other.as_ref())
cmp(h, v, w) == SliceCmp(deref(h, v), deref(h, w))

\* (mutant) equality of the 8-byte words, as a derived PartialEq would be
eq_Words(h, v, w) == v = w

\* PartialEq::eq: self.as_ref() == other.as_ref()
eq(h, v, w) == Eq(deref(h, v), deref(h, w))

\* v == w, called by thread t on self[t] and tmp[t]
CompareEq(t) ==
    /\ ~fault
    /\ pc[t] = "cmp"
    /\ IF ~Accessible(heap, self[t]) \/ ~Accessible(heap, tmp[t]) THEN Fault
       ELSE /\ last' = [Returned("eq", self[t], tmp[t], <<>>, "false", heap)
                           EXCEPT !.path = IF eq(heap, self[t], tmp[t])
                                           THEN "true" ELSE "false"]
            /\ Idle(t)
            /\ UNCHANGED <<heap, vals, calls, fault>>

\* v.cmp(w), called by thread t on self[t] and tmp[t]
CompareOrd(t) ==
    /\ ~fault
    /\ pc[t] = "cmp"
    /\ IF ~Accessible(heap, self[t]) \/ ~Accessible(heap, tmp[t]) THEN Fault
       ELSE /\ last' = [Returned("cmp", self[t], tmp[t], <<>>, "Equal", heap)
                           EXCEPT !.path = cmp(heap, self[t], tmp[t])]
            /\ Idle(t)
            /\ UNCHANGED <<heap, vals, calls, fault>>

(***************************************************************************)
(* The specification.                                                       *)
(***************************************************************************)
Next ==
    \E t \in Threads :
        \/ \E s \in Slices : New(t, s)
        \/ \E lenbuf \in LongLens : NewLong(t, lenbuf)
        \/ \E w \in BagToSet(vals) : CloneCall(t, w)
        \/ CloneLoad(t)
        \/ CloneFallback(t)
        \/ CloneCasOk(t)
        \/ CloneCasFail(t)
        \/ \E w \in BagToSet(vals) : DropCall(t, w)
        \/ DropFree(t)
        \/ \E w \in BagToSet(vals) : MakeMutCall(t, w)
        \/ MakeMutCopy(t)
        \/ MakeMutFree(t)
        \/ \E b \in WriteBytes : \E i \in WriteOffsets(view[t].len) :
              Write(t, i, b)
        \/ MutRelease(t)

Spec == Init /\ [][Next]_vars

(***************************************************************************)
(* Scheduling.  Every thread inside a call keeps taking steps (weak         *)
(* fairness of the steps of clone, drop and make_mut; the compare-and-swap  *)
(* is one instruction, which succeeds or fails), and a weak                 *)
(* compare-and-swap that is attempted again and again on a count equal to   *)
(* the value loaded does not fail for ever (strong fairness of its success).*)
(* Starting a call and writing through a mutable slice are up to the        *)
(* program: no fairness.                                                    *)
(***************************************************************************)
Fairness ==
    \A t \in Threads :
        /\ WF_vars(CloneLoad(t))
        /\ WF_vars(CloneFallback(t))
        /\ WF_vars(CloneCasOk(t) \/ CloneCasFail(t))
        /\ SF_vars(CloneCasOk(t))
        /\ WF_vars(DropFree(t))
        /\ WF_vars(MakeMutCopy(t))
        /\ WF_vars(MakeMutFree(t))

FairSpec == Spec /\ Fairness

(***************************************************************************)
(* Comparisons.  Three values built by new() from three slices, each on a   *)
(* block of its own, the first with one owner or with as many as its        *)
(* reference count can hold; a thread is about to compare the first value   *)
(* with itself (shared), with the second or with the third.                 *)
(***************************************************************************)
\* slices that are prefixes of each other, that differ in the first byte
\* and that differ in the last byte
CmpSlices ==
    {Slice(n, b) : n \in SliceLens, b \in {0, 1}}
        \cup {[Slice(n, 0) EXCEPT ![n] = 170] : n \in SliceLens \ {0}}

CmpThird == {Slice(8, 0), Slice(256, 1)}

CmpInit ==
    /\ expect = [t \in Threads |-> <<>>]
    /\ orig = [t \in Threads |-> NoWord]
    /\ cur = [t \in Threads |-> 0]
    /\ view = [t \in Threads |-> NoView]
    /\ last = NoCall
    /\ calls = 0
    /\ fault = FALSE
    /\ pc = [t \in Threads |-> IF t = 1 THEN "cmp" ELSE "idle"]
    /\ \E s1 \in CmpSlices : \E s2 \in CmpSlices : \E s3 \in CmpThird :
          LET w1 == NewWord(s1, AddrOf(1))
              w2 == NewWord(s2, AddrOf(2))
              w3 == NewWord(s3, AddrOf(3))
              h3 == NewHeap(NewHeap(NewHeap(EmptyHeap, s1, AddrOf(1)),
                                    s2, AddrOf(2)), s3, AddrOf(3))
          IN  \E n \in (IF IsRemote(w1) THEN {1, RcMax(w1)} ELSE {1}) :
              \E other \in {w2, w3} \cup (IF n > 1 THEN {w1} ELSE {}) :
                  /\ heap = IF IsRemote(w1) THEN RcStore(h3, w1, n) ELSE h3
                  /\ vals = BagOf(w1, n) (+) SetToBag({w2}) (+) SetToBag({w3})
                  /\ self = [t \in Threads |-> IF t = 1 THEN w1 ELSE NoWord]
                  /\ tmp = [t \in Threads |-> IF t = 1 THEN other ELSE NoWord]

CmpNext == \E t \in Threads : CompareEq(t) \/ CompareOrd(t)

CmpSpec == CmpInit /\ [][CmpNext]_vars

(***************************************************************************)
(* The values alive in a state.                                             *)
(***************************************************************************)
\* values borrowed exclusively by a running make_mut or by its mutable
\* slice; while the old value is being deallocated (mm_free) the value is
\* the copy already built
HeldBy(t) ==
    IF pc[t] \in {"mm_copy", "mut"} THEN {self[t]}
    ELSE IF pc[t] = "mm_free" THEN {tmp[t]}
    ELSE {}

LiveWords == BagToSet(vals) \cup UNION {HeldBy(t) : t \in Threads}

\* the live values other than the one thread t holds
OthersOf(t) ==
    BagToSet(vals) \cup UNION {HeldBy(u) : u \in Threads \ {t}}

\* the base of the block a remote value uses
BlockBase(h, w) == DeallocPtr(h, w)

\* addresses an InlineArray value itself may have: repr(align(8))
ValueAddrs == {ALIGN * k : k \in 1..3}

(***************************************************************************)
(* C1  Round trip: the value new() builds from a slice s has a byte view    *)
(* equal to s, byte for byte, and a length equal to len(s); for inline,     *)
(* SmallRemote and BigRemote lengths alike.                                 *)
(***************************************************************************)
C1_RoundTrip ==
    last.op = "new" =>
        /\ last.view = last.arg
        /\ last.len = Len(last.arg)
        /\ Len(last.view) = Len(last.arg)
        /\ \A i \in 1..Len(last.arg) : last.view[i] = last.arg[i]

\* a BigRemote value has been built from 256 bytes
C1_Witness ==
    /\ last.op = "new"
    /\ Len(last.arg) = 256
    /\ kind(last.out) = "BigRemote"
    /\ BagIn(last.out, vals)

(***************************************************************************)
(* C2  Copy-on-write isolation: once make_mut has returned on a remote      *)
(* value, no other live value uses the block of that value, and a write     *)
(* through the mutable slice leaves the byte view of every other live       *)
(* value unchanged, whatever clones, drops and make_muts other threads      *)
(* interleave.                                                              *)
(***************************************************************************)
C2_Separate ==
    \A t \in Threads :
        (pc[t] = "mut" /\ IsRemote(self[t])) =>
            \A w \in OthersOf(t) :
                IsRemote(w) => BlockBase(heap, w) # BlockBase(heap, self[t])

\* a step in which thread t writes through its mutable slice
WritesThrough(t) == pc[t] = "mut" /\ expect'[t] # expect[t]

C2_Frame ==
    \A t \in Threads :
        WritesThrough(t) =>
            \A w \in OthersOf(t) : deref(heap', w) = deref(heap, w)

C2_Isolation == [][C2_Separate' /\ C2_Frame]_vars

\* make_mut privatized a shared value, a write went through, and the value
\* it was shared with is alive and shows the old bytes
C2_Witness ==
    \E t \in Threads :
        /\ pc[t] = "mut"
        /\ IsRemote(self[t])
        /\ orig[t] # self[t]
        /\ BagIn(orig[t], vals)
        /\ deref(heap, self[t])[1] \in WriteBytes
        /\ deref(heap, orig[t])[1] \notin WriteBytes

(***************************************************************************)
(* C3  After make_mut has returned, the reference count of the block the    *)
(* value uses (if it is remote) is 1, and the byte view of the value is its *)
(* view at the call with the writes made through the mutable slice applied. *)
(***************************************************************************)
C3_MakeMut ==
    \A t \in Threads :
        pc[t] = "mut" =>
            /\ IsRemote(self[t]) => RcLoad(heap, self[t]) = 1
            /\ deref(heap, self[t]) = expect[t]
            /\ view[t].len = Len(expect[t])

\* a BigRemote value that was unique, with a write at its first byte
C3_Witness ==
    \E t \in Threads :
        /\ pc[t] = "mut"
        /\ kind(self[t]) = "BigRemote"
        /\ orig[t] = self[t]
        /\ expect[t][1] \in WriteBytes
        /\ deref(heap, self[t])[1] \in WriteBytes

(***************************************************************************)
(* C4  Saturation safety: the clone made when the count is at its maximum   *)
(* shows the bytes of the original and leaves the original's bytes alone,   *)
(* and no drop deallocates a block that a live value still uses: every      *)
(* live value's block is live, and no access ever leaves the live blocks.   *)
(***************************************************************************)
C4_SaturationSafe ==
    /\ ~fault
    /\ \A w \in LiveWords : Accessible(heap, w)
    /\ (last.op = "clone" /\ last.path = "fallback") =>
          /\ last.view = last.arg
          /\ last.srcview = last.arg

\* a drop returned after a clone took the copy path: the original's block
\* has MAX - 1 owners, the copy has one, and both show the same bytes
C4_Witness ==
    /\ last.op = "drop"
    /\ \E w \in BagToSet(vals) : \E c \in BagToSet(vals) :
          /\ IsRemote(w) /\ IsRemote(c)
          /\ RcLoad(heap, w) = RcMax(w) - 1
          /\ CopiesIn(w, vals) = RcMax(w) - 1
          /\ RcLoad(heap, c) = 1
          /\ BlockBase(heap, c) # BlockBase(heap, w)
          /\ deref(heap, c) = deref(heap, w)

(***************************************************************************)
(* C5  Saturation fallback: a clone that observed the count at its maximum  *)
(* returns by the copy path; that step leaves the reference count of the    *)
(* original's block and the original value as they were, and returns a      *)
(* value on a block that was not live before, with reference count 1 and    *)
(* the bytes of the original.                                               *)
(***************************************************************************)
C5_Step(t) ==
    (pc[t] = "clone_loaded" /\ cur[t] = RcMax(self[t])
        /\ pc'[t] # "clone_loaded") =>
        /\ last'.op = "clone"
        /\ last'.path = "fallback"
        /\ last'.src = self[t]
        /\ RcLoad(heap', self[t]) = RcLoad(heap, self[t])
        /\ CopiesIn(self[t], vals') = CopiesIn(self[t], vals)
        /\ IsRemote(last'.out)
        /\ BlockBase(heap', last'.out) \notin DOMAIN heap
        /\ BlockBase(heap', last'.out) \in DOMAIN heap'
        /\ RcLoad(heap', last'.out) = 1
        /\ deref(heap', last'.out) = deref(heap, self[t])
        /\ BagIn(last'.out, vals')

C5_Fallback == [][\A t \in Threads : C5_Step(t)]_vars

\* a clone took the copy path and the original's count is still at MAX
C5_Witness ==
    /\ last.op = "clone"
    /\ last.path = "fallback"
    /\ BagIn(last.src, vals)
    /\ BagIn(last.out, vals)
    /\ RcLoad(heap, last.src) = RcMax(last.src)
    /\ RcLoad(heap, last.out) = 1

(***************************************************************************)
(* C6  (the crate documentation) Every array longer than 7 bytes has a      *)
(* reference count 16 bits wide, stored with a 48-bit length at the         *)
(* beginning of the shared block, and a clone copies the bytes only when    *)
(* that count has reached 2^16 - 1.                                         *)
(***************************************************************************)
C6_Documented ==
    /\ \A w \in LiveWords :
          IsRemote(w) =>
              /\ RcMax(w) = U16_MAX
              /\ RcAddr(w) = BlockBase(heap, w)
              /\ Len(heap[BlockBase(heap, w)])
                    = ViewLen(heap, w) + 2 + BIG_REMOTE_LEN_BYTES
    /\ \A t \in Threads :
          (pc[t] = "clone_loaded" /\ Saturated(self[t], cur[t])) =>
              cur[t] = U16_MAX

(***************************************************************************)
(* C7  The byte view of every live value starts at a multiple of 8, the     *)
(* value itself being at a multiple of 8: an Inline view starts at the      *)
(* value, a SmallRemote view at trailer - L, a BigRemote view at            *)
(* header + 8.                                                              *)
(***************************************************************************)
C7_Aligned ==
    \A w \in LiveWords :
        LET k == kind(w) IN
        IF k = "Inline"
        THEN \A a \in ValueAddrs :
                ViewPtr(heap, w, a) = a /\ ViewPtr(heap, w, a) % 8 = 0
        ELSE LET p == ViewPtr(heap, w, 0) IN
             /\ p % 8 = 0
             /\ k = "SmallRemote" => p = remote_ptr(w) - ViewLen(heap, w)
             /\ k = "BigRemote" => p = remote_ptr(w) + 8

\* make_mut privatized a SmallRemote value of 255 bytes, whose trailer is
\* at no multiple of 8, and a BigRemote value is alive too
C7_Witness ==
    /\ \E t \in Threads :
          /\ pc[t] = "mut"
          /\ kind(self[t]) = "SmallRemote"
          /\ orig[t] # self[t]
          /\ ViewLen(heap, self[t]) = 255
          /\ remote_ptr(self[t]) % 8 # 0
    /\ \E w \in BagToSet(vals) : kind(w) = "SmallRemote"

(***************************************************************************)
(* C8  A clone, whichever path it takes (word copy of an Inline value,      *)
(* incremented count, copy at a saturated count), has the byte view of the  *)
(* value cloned, compares equal to it, and leaves its byte view unchanged.  *)
(***************************************************************************)
C8_CloneEqual ==
    last.op = "clone" =>
        /\ last.view = last.arg
        /\ \A i \in 1..Len(last.arg) : last.view[i] = last.arg[i]
        /\ Eq(last.view, last.srcview)
        /\ last.srcview = last.arg

\* a clone returned by incrementing the count of a SmallRemote block
C8_Witness ==
    /\ last.op = "clone"
    /\ last.path = "cas"
    /\ kind(last.src) = "SmallRemote"
    /\ last.out = last.src
    /\ CopiesIn(last.out, vals) >= 2
    /\ Len(last.view) >= 8

(***************************************************************************)
(* C9  (as stated) For every live remote value, the stored word with its    *)
(* two tag bits cleared is the base address of a live block.                *)
(***************************************************************************)
C9_PointerIsBase ==
    \A w \in LiveWords : IsRemote(w) => remote_ptr(w) \in DOMAIN heap

(***************************************************************************)
(* C9  (amended) For every live BigRemote value the stored word with its    *)
(* two tag bits cleared is the base address of a live block of L + 8        *)
(* bytes; for every live SmallRemote value it is the address of the         *)
(* trailer, base + L, of a live block of L + 2 bytes at base; L being the   *)
(* length in the header or trailer, and the reference count there being at  *)
(* least 1.                                                                 *)
(***************************************************************************)
C9_PointerInBlock ==
    \A w \in LiveWords :
        LET k == kind(w)
            p == remote_ptr(w)
        IN  /\ k = "BigRemote" =>
                  /\ p \in DOMAIN heap
                  /\ Len(heap[p]) = BigLen(heap, w) + 8
                  /\ RcLoad(heap, w) >= 1
            /\ k = "SmallRemote" =>
                  LET L == SmallLen(heap, w) IN
                  /\ 8 <= L /\ L <= 255
                  /\ p - L \in DOMAIN heap
                  /\ Len(heap[p - L]) = L + 2
                  /\ p \notin DOMAIN heap
                  /\ RcLoad(heap, w) >= 1

\* a SmallRemote value of 255 bytes and a BigRemote value are alive
C9_Witness ==
    /\ \E w \in BagToSet(vals) :
          kind(w) = "SmallRemote" /\ SmallLen(heap, w) = 255
    /\ \E w \in BagToSet(vals) : kind(w) = "BigRemote"

(***************************************************************************)
(* C10  The variant of a value new() builds is decided by the length L      *)
(* alone: L <= 7 gives tag 00 and inline length L, 8 <= L <= 255 gives tag  *)
(* 01 and trailer length L, L >= 256 gives tag 10 and header length L; and  *)
(* the tag of no live value, after any calls and writes, is 11.             *)
(***************************************************************************)
Tag(w) == BitAnd(w[SZ], 3)

C10_Variant ==
    /\ last.op = "new" =>
          LET L == Len(last.arg)
              w == last.out
          IN  /\ L <= 7 =>
                    Tag(w) = 0 /\ kind(w) = "Inline" /\ inline_len(w) = L
              /\ (8 <= L /\ L <= 255) =>
                    Tag(w) = 1 /\ kind(w) = "SmallRemote" /\ last.len = L
              /\ L >= 256 =>
                    Tag(w) = 2 /\ kind(w) = "BigRemote" /\ last.len = L
    /\ \A w \in LiveWords : Tag(w) # 3
    /\ \A w \in LiveWords : kind(w) \in {"Inline", "SmallRemote", "BigRemote"}

\* a SmallRemote value was built from 8 bytes while an Inline value of 7
\* bytes is alive
C10_Witness ==
    /\ last.op = "new"
    /\ Len(last.arg) = 8
    /\ kind(last.out) = "SmallRemote"
    /\ \E w \in BagToSet(vals) : kind(w) = "Inline" /\ inline_len(w) = 7

(***************************************************************************)
(* C11  new() on a slice whose length needs more than 48 bits panics on     *)
(* the assertion about the two top length bytes, before any allocation:     *)
(* the step changes no block and adds no value.  For a length below 2^48    *)
(* the six little-endian bytes written to the BigRemote header decode back  *)
(* to exactly that length, in the header built for a long slice as in the   *)
(* header of every BigRemote value new() returns.                           *)
(***************************************************************************)
\* the length needs more than 48 bits: a byte above the sixth is not zero
NeedsMoreThan48(lenbuf) == \E i \in 7..SZ : lenbuf[i] # 0

C11_Step ==
    /\ \A t \in Threads : \A lenbuf \in LongLens :
          NewLong(t, lenbuf) =>
              /\ heap' = heap
              /\ vals' = vals
              /\ DOMAIN heap' = DOMAIN heap
              /\ last'.op = "new_long"
              /\ last'.arg = lenbuf
              /\ last'.out = NoWord
              /\ NeedsMoreThan48(lenbuf) => last'.path = "panic_len"
              /\ ~NeedsMoreThan48(lenbuf) =>
                    /\ last'.path = "alloc_null"
                    /\ last'.view = lenbuf
    /\ \A t \in Threads : \A s \in Slices :
          (New(t, s) /\ kind(last'.out) = "BigRemote") =>
              /\ BigLen(heap', last'.out) = Len(s)
              /\ ReadBytes(heap', BigLenAddr(last'.out), BIG_REMOTE_LEN_BYTES)
                    = BigLenField(ToLeBytes(Len(s), SZ))
              /\ LenFits(ToLeBytes(Len(s), SZ))

C11_TooLong == [][C11_Step]_vars

\* new() panicked on a length of 2^48 while a value with a block is alive,
\* and the block and the value are still there
C11_Witness ==
    /\ last.op = "new_long"
    /\ last.path = "panic_len"
    /\ last.arg = <<0, 0, 0, 0, 0, 0, 1, 0>>
    /\ DOMAIN heap # {}
    /\ \E w \in BagToSet(vals) : IsRemote(w)

(***************************************************************************)
(* C12  Equality and ordering depend on the byte views only: for every      *)
(* pair of live values (v, w), v == w exactly if the views have the same    *)
(* length and the same byte at every index, and v.cmp(w) is the             *)
(* lexicographic order of the views, decided by the first index at which    *)
(* they differ and else by their lengths; the order is total (exactly one   *)
(* of Less, Equal, Greater; Equal exactly if v == w; antisymmetric;         *)
(* transitive).  Values of different variants, on different blocks and with *)
(* different reference counts are compared the same way.                    *)
(***************************************************************************)
\* the lexicographic order of two byte sequences, by the least index at
\* which they differ
LexOrder(a, b) ==
    LET n == IF Len(a) < Len(b) THEN Len(a) ELSE Len(b)
        D == {i \in 1..n : a[i] # b[i]}
    IN  IF D # {}
        THEN LET k == CHOOSE k \in D : \A j \in D : k <= j
             IN  IF a[k] < b[k] THEN "Less" ELSE "Greater"
        ELSE IF Len(a) < Len(b) THEN "Less"
        ELSE IF Len(a) > Len(b) THEN "Greater"
        ELSE "Equal"

C12_EqOrd ==
    /\ last.op = "eq" =>
          \A a \in {last.srcview} : \A b \in {last.view} :
              (last.path = "true") <=>
                  /\ Len(a) = Len(b)
                  /\ \A i \in 1..Len(a) : a[i] = b[i]
    /\ last.op = "cmp" =>
          /\ last.path = LexOrder(last.srcview, last.view)
          /\ last.path \in {"Less", "Equal", "Greater"}
          /\ (last.path = "Equal") <=> eq(heap, last.src, last.out)
          /\ (last.path = "Less") <=>
                (cmp(heap, last.out, last.src) = "Greater")
          /\ (last.path = "Greater") <=>
                (cmp(heap, last.out, last.src) = "Less")
    /\ \A C \in {[p \in LiveWords \X LiveWords |-> cmp(heap, p[1], p[2])]} :
          \A u \in LiveWords : \A v \in LiveWords : \A w \in LiveWords :
              (C[<<u, v>>] = "Less" /\ C[<<v, w>>] = "Less") =>
                  C[<<u, w>>] = "Less"

\* a SmallRemote value of 255 bytes with 255 owners was compared with a
\* BigRemote value of 256 bytes with one owner; the shorter one is the
\* greater, by its first byte
C12_Witness ==
    /\ last.op = "cmp"
    /\ kind(last.src) = "SmallRemote"
    /\ kind(last.out) = "BigRemote"
    /\ RcLoad(heap, last.src) = U8_MAX
    /\ RcLoad(heap, last.out) = 1
    /\ Len(last.srcview) = 255
    /\ Len(last.view) = 256
    /\ last.path = "Greater"

(***************************************************************************)
(* C13  Reference count accuracy: in every state in which no clone, drop    *)
(* or make_mut is in progress, every live block is used by at least one     *)
(* live value and its reference count equals the number of live values      *)
(* whose word points into it, so it is at least 1; in particular the block  *)
(* of a value new() has just built has count 1.                             *)
(***************************************************************************)
\* no call is between its first and its last step (a mutable slice that
\* make_mut returned may be alive)
Quiescent == \A t \in Threads : pc[t] \in {"idle", "mut"}

\* the number of threads holding the value w exclusively
HoldersOf(w) == Cardinality({t \in Threads : w \in HeldBy(t)})

RECURSIVE OwnersIn(_)
\* the number of live values among the words ws
OwnersIn(ws) ==
    IF ws = {} THEN 0
    ELSE LET w == CHOOSE x \in ws : TRUE
         IN  (IF BagIn(w, vals) THEN CopiesIn(w, vals) ELSE 0)
                + HoldersOf(w) + OwnersIn(ws \ {w})

\* the live words that point into the block at base
UsersOf(base) ==
    {w \in LiveWords : IsRemote(w) /\ BlockBase(heap, w) = base}

C13_Accurate ==
    Quiescent =>
        /\ \A w \in LiveWords :
              IsRemote(w) => BlockBase(heap, w) \in DOMAIN heap
        /\ \A base \in DOMAIN heap :
              \A us \in {UsersOf(base)} :
                  /\ us # {}
                  /\ \A w \in us :
                        /\ RcLoad(heap, w) = OwnersIn(us)
                        /\ RcLoad(heap, w) >= 1
        /\ (last.op = "new" /\ IsRemote(last.out) /\ calls = 1
                /\ BagIn(last.out, vals)) =>
              RcLoad(heap, last.out) = 1

\* every call has returned; a clone has raised a count from 2 to 3 and
\* three values use the block
C13_Witness ==
    /\ \A t \in Threads : pc[t] = "idle"
    /\ last.op = "clone"
    /\ last.path = "cas"
    /\ RcLoad(heap, last.out) = 3
    /\ CopiesIn(last.out, vals) = 3

(***************************************************************************)
(* C14  Under every interleaving of clones (a load, then a weak             *)
(* compare-and-swap that may fail) and drops on one block, the reference    *)
(* count of a block in use stays between 1 and the maximum of its field,    *)
(* it never wraps around to 0.  A clone returns either by one successful    *)
(* compare-and-swap, which finds the count equal to the value loaded, below *)
(* the maximum, and raises it by exactly one, or, having loaded the         *)
(* maximum, by the copy path, which leaves the count alone; a failed        *)
(* compare-and-swap and a load change nothing.  So of two clones that both  *)
(* loaded MAX - 1 at most one increments.                                   *)
(***************************************************************************)
C14_Returns(t) ==
    (pc[t] = "clone_loaded" /\ pc'[t] = "idle") =>
        \A w \in {self[t]} :
            \/ /\ last'.path = "cas"
               /\ cur[t] < RcMax(w)
               /\ RcLoad(heap, w) = cur[t]
               /\ RcLoad(heap', w) = cur[t] + 1
               /\ CopiesIn(w, vals') = CopiesIn(w, vals) + 1
               /\ DOMAIN heap' = DOMAIN heap
            \/ /\ last'.path = "fallback"
               /\ cur[t] = RcMax(w)
               /\ RcLoad(heap', w) = RcLoad(heap, w)
               /\ CopiesIn(w, vals') = CopiesIn(w, vals)

C14_Retries(t) ==
    (pc[t] \in ClonePcs /\ pc'[t] \in ClonePcs /\ pc'[t] # pc[t]) =>
        /\ heap' = heap
        /\ vals' = vals

C14_InRange ==
    \A w \in LiveWords :
        IsRemote(w) => 1 <= RcLoad(heap, w) /\ RcLoad(heap, w) <= RcMax(w)

C14_NoOverflow ==
    /\ []C14_InRange
    /\ [][\A t \in Threads : C14_Returns(t) /\ C14_Retries(t)]_vars

\* a clone that loaded MAX - 1 lost the race: another clone has taken the
\* count to MAX, its own compare-and-swap failed and it is about to load
\* again
C14_Witness ==
    \E t \in Threads :
        /\ pc[t] = "clone_load"
        /\ cur[t] = RcMax(self[t]) - 1
        /\ RcLoad(heap, self[t]) = RcMax(self[t])
        /\ CopiesIn(self[t], vals) = RcMax(self[t])
        /\ last.op = "clone"
        /\ last.path = "cas"

(***************************************************************************)
(* C15  Every block, whether allocated by new(), by the copy path of clone  *)
(* or by the copy in make_mut, is deallocated exactly once, by the drop     *)
(* that took its count from 1 to 0: a block leaves the heap only in the     *)
(* deallocating step of such a drop, which finds it live (no double free);  *)
(* no two drops are deallocating the same block; a block is either used by  *)
(* a live value or being deallocated, never both and never neither; and     *)
(* once every value has been dropped no block is left.                      *)
(***************************************************************************)
\* positions of a drop between its fetch_sub and its dealloc
FreePcs == {"drop_free", "mm_free"}

\* the threads whose drop is about to deallocate the block at base
FreersOf(base) ==
    {t \in Threads : pc[t] \in FreePcs /\ DeallocPtr(heap, self[t]) = base}

C15_State ==
    /\ ~fault
    /\ \A t \in Threads :
          pc[t] \in FreePcs =>
              /\ DeallocOk(heap, self[t])
              /\ RcLoad(heap, self[t]) = 0
    /\ \A base \in DOMAIN heap :
          \A us \in {UsersOf(base)} : \A fs \in {FreersOf(base)} :
              /\ Cardinality(fs) <= 1
              /\ (us = {}) <=> (fs # {})
    /\ (LiveWords = {} /\ \A t \in Threads : pc[t] = "idle") =>
          DOMAIN heap = {}

C15_Step ==
    DOMAIN heap' # DOMAIN heap =>
        \/ DOMAIN heap \subseteq DOMAIN heap'
        \/ \E t \in Threads :
              /\ pc[t] \in FreePcs
              /\ pc'[t] \notin FreePcs
              /\ DeallocPtr(heap, self[t]) \in DOMAIN heap
              /\ DOMAIN heap' = DOMAIN heap \ {DeallocPtr(heap, self[t])}

C15_FreedOnce == []C15_State /\ [][C15_Step]_vars

\* two values shared a block and both were dropped: the first drop has
\* returned without deallocating, the second took the count to 0 and is about
\* to deallocate the block, which no value uses any more
C15_Witness ==
    \E t \in Threads :
        /\ pc[t] = "drop_free"
        /\ calls = 2
        /\ last.op = "drop"
        /\ last.path \in {"SmallRemote", "BigRemote"}
        /\ LiveWords = {}
        /\ DeallocPtr(heap, self[t]) \in DOMAIN heap
        /\ RcLoad(heap, self[t]) = 0

(***************************************************************************)
(* C16  Deallocation uses the base address, the size and the alignment of   *)
(* the allocation.  What drop passes to dealloc for a SmallRemote value is  *)
(* the decoded pointer minus L, with size L + 2 and alignment 8, and for a  *)
(* BigRemote value the decoded pointer, with size L + 8 and alignment 8, L  *)
(* being the length in the trailer or header; that address is the base of   *)
(* a live block, a multiple of the alignment new() asked for, and that size *)
(* is the size of the block, the one new() computes for a slice of L bytes. *)
(* This holds for every live value and for every value whose drop is about  *)
(* to deallocate.                                                           *)
(***************************************************************************)
\* the values whose drop has taken the count to 0 and is about to deallocate
Freeing == {self[t] : t \in {u \in Threads : pc[u] \in FreePcs}}

C16_SameLayout ==
    \A w \in LiveWords \cup Freeing :
        IsRemote(w) =>
            \A L \in {ViewLen(heap, w)} :
            \A ptr \in {DeallocPtr(heap, w)} :
            \A size \in {DeallocSize(heap, w)} :
                /\ kind(w) = "SmallRemote" =>
                      /\ ptr = remote_ptr(w) - L
                      /\ size = L + 2
                      /\ INLINE_CUTOFF < L /\ L <= SMALL_REMOTE_CUTOFF
                /\ kind(w) = "BigRemote" =>
                      /\ ptr = remote_ptr(w)
                      /\ size = L + 8
                      /\ L > SMALL_REMOTE_CUTOFF
                /\ ptr \in DOMAIN heap
                /\ Len(heap[ptr]) = size
                /\ size = LayoutSize(L)
                /\ DeallocAlign(w) = ALIGN
                /\ ptr % DeallocAlign(w) = 0
                /\ ptr \in AddrPool

\* the drop inside make_mut is about to deallocate the block of a
\* SmallRemote value of 255 bytes, whose decoded pointer is no multiple of 8
C16_Witness ==
    \E t \in Threads :
        /\ pc[t] = "mm_free"
        /\ kind(self[t]) = "SmallRemote"
        /\ SmallLen(heap, self[t]) = 255
        /\ remote_ptr(self[t]) % 8 # 0
        /\ DeallocPtr(heap, self[t]) \in DOMAIN heap
        /\ DeallocSize(heap, self[t]) = 257

(***************************************************************************)
(* C17  The tag overlay is lossless.  For every slice longer than 7 bytes   *)
(* and every 8-byte aligned address the allocator may return for it, the    *)
(* assertion of new() holds: the low 3 bits of the last byte of the stored  *)
(* pointer (the header address, or the trailer address base + L, which for  *)
(* an L that is no multiple of 8 is not aligned) are zero before the tag is *)
(* or-ed in.  And in every step that allocates a block at base, the value   *)
(* built on it holds the bytes of that pointer with nothing but the low 2   *)
(* bits of the last byte changed, and remote_ptr() of it is exactly the     *)
(* address stored.                                                          *)
(***************************************************************************)
\* the pointer new() stores for a slice of n bytes in a block at base
StoredPtr(n, base) == IF n <= SMALL_REMOTE_CUTOFF THEN base + n ELSE base

C17_AssertHolds ==
    \A s \in Slices :
        Len(s) > INLINE_CUTOFF =>
            /\ \A a \in AllocChoices(heap, LayoutSize(Len(s)), ALIGN) :
                  /\ a % 8 = 0
                  /\ TagBitsFree(StoredPtr(Len(s), a))
            /\ NewChoices(heap, s)
                  = AllocChoices(heap, LayoutSize(Len(s)), ALIGN)

\* the words a step may have built
BuiltWords ==
    ({last.out} \cup {self[t] : t \in Threads} \cup {tmp[t] : t \in Threads})
        \ {NoWord}

C17_Step ==
    \A base \in DOMAIN heap' \ DOMAIN heap :
        \E w \in BuiltWords' :
            /\ IsRemote(w)
            /\ \A n \in {Len(heap'[base])
                            - (IF kind(w) = "SmallRemote"
                               THEN SMALL_TRAILER_SIZE ELSE BIG_HEADER_SIZE)} :
               \A d \in {ToLeBytes(StoredPtr(n, base), SZ)} :
                  /\ base % 8 = 0
                  /\ (kind(w) = "SmallRemote") <=> (n <= SMALL_REMOTE_CUTOFF)
                  /\ BitAnd(d[SZ], 7) = 0
                  /\ \A i \in 1..(SZ - 1) : w[i] = d[i]
                  /\ w[SZ] = d[SZ] + Tag(w)
                  /\ BitAnd(w[SZ], TRAILER_PTR_MASK) = d[SZ]
                  /\ remote_ptr(w) = StoredPtr(n, base)
                  /\ w \in LiveWords'

C18_Terminates ==
    \A t \in Threads :
        /\ (pc[t] \in ClonePcs) ~> (pc[t] = "idle")
        /\ (pc[t] = "drop_free") ~> (pc[t] = "idle")
        /\ (pc[t] \in {"mm_copy", "mm_free"}) ~> (pc[t] = "mut")

\* the compare-and-swap of a clone failed although the count is still the
\* value loaded (a spurious failure), and the loop is about to load again
C18_Witness ==
    \E t \in Threads :
        /\ pc[t] = "clone_load"
        /\ RcLoad(heap, self[t]) = cur[t]
        /\ cur[t] < RcMax(self[t])
        /\ BagIn(self[t], vals)

(***************************************************************************)
(* C19  make_mut on an Inline value, or on a remote value whose reference   *)
(* count is 1, allocates nothing, deallocates nothing and leaves the stored *)
(* word as it is.  For every variant the mutable slice it returns covers    *)
(* the payload bytes and nothing else, so that a write through the slice    *)
(* changes no tag, no length and no reference count, and the length of the  *)
(* value after the writes is its length before make_mut.                    *)
(***************************************************************************)
\* the heap addresses of the trailer or the header of a remote value
MetaAddrs(w) ==
    IF kind(w) = "SmallRemote"
    THEN remote_ptr(w) .. (remote_ptr(w) + SMALL_TRAILER_SIZE - 1)
    ELSE remote_ptr(w) .. (remote_ptr(w) + BIG_HEADER_SIZE - 1)

\* the mutable slice v is the payload of the value w: its length is the
\* length of the value, and it lies in the storage before the trailer byte
\* (Inline) or is the block less its trailer or header (remote)
CoversPayload(h, w, v) ==
    /\ v.len = ViewLen(h, w)
    /\ IF kind(w) = "Inline"
       THEN v.inl /\ v.len < SZ
       ELSE /\ ~v.inl
            /\ \A a \in MetaAddrs(w) : a < v.ptr \/ v.ptr + v.len <= a
            /\ \E b \in DOMAIN h :
                  /\ b <= v.ptr
                  /\ v.ptr + v.len <= b + Len(h[b])
                  /\ Len(h[b]) = v.len + Cardinality(MetaAddrs(w))
                  /\ \A a \in MetaAddrs(w) : b <= a /\ a < b + Len(h[b])

C19_State ==
    \A t \in Threads :
        pc[t] = "mut" =>
            /\ CoversPayload(heap, self[t], view[t])
            /\ ViewLen(heap, self[t]) = Len(expect[t])

\* a step in which thread t calls make_mut
CallsMakeMut(t) == pc[t] = "idle" /\ pc'[t] \in {"mut", "mm_copy"}

C19_Step ==
    \A t \in Threads :
        /\ (/\ CallsMakeMut(t)
            /\ \/ kind(orig'[t]) = "Inline"
               \/ RcLoad(heap, orig'[t]) = 1)
              => /\ pc'[t] = "mut"
                 /\ heap' = heap
                 /\ self'[t] = orig'[t]
                 /\ BagIn(orig'[t], vals)
        /\ \A i \in 0..(SZ - 1) : \A b \in WriteBytes :
              Write(t, i, b) =>
                  /\ ~fault'
                  /\ DOMAIN heap' = DOMAIN heap
                  /\ kind(self'[t]) = kind(self[t])
                  /\ \A w \in LiveWords' :
                        /\ ViewLen(heap', w) = ViewLen(heap, w)
                        /\ IsRemote(w) => RcLoad(heap', w) = RcLoad(heap, w)

C19_MakeMutFrame == []C19_State /\ [][C19_Step]_vars

\* an Inline value of seven bytes, the longest there is: make_mut returned
\* at once with the word as it was, and the last byte of the slice, next to
\* the trailer byte, has been written
C19_Witness ==
    \E t \in Threads :
        /\ pc[t] = "mut"
        /\ kind(self[t]) = "Inline"
        /\ view[t].len = SZ - 1
        /\ self[t][SZ - 1] \in WriteBytes
        /\ self[t][SZ] = orig[t][SZ]
        /\ orig[t][SZ - 1] \notin WriteBytes

====
